---------------------------- MODULE Spec2Model ----------------------------
(***************************************************************************)
(* A model of prettycat's core: the streaming console-element decoder and  *)
(* its driver (src/src/console/console_elem.rs), the ANSI classifier       *)
(* (src/src/console/ansi_parsing.rs) and the recoloring engine             *)
(* (src/src/stream_colors.rs, src/src/console/console_color.rs).           *)
(*                                                                         *)
(* Bytes are integers 0..255; a &str and a &[u8] are sequences of bytes.   *)
(* The specifications share the variables:                                 *)
(*   Spec       for_each_console_element over every input of the decoder   *)
(*              alphabet, split into reads in every possible way, with a   *)
(*              handler and a source that may fail;                        *)
(*   SpecLive   the same driver as a running program, for termination;     *)
(*   SpecIter   IterElements::try_get_next_element repeated on one chunk;  *)
(*   SpecAnsi   parse_ansi_type applied to every sequence of AnsiInputs;   *)
(*   SpecColor  Color::rgb_interpolate applied to colours and alphas;      *)
(*   SpecEngine the handler closure of copy_colorized applied to elements. *)
(***************************************************************************)
EXTENDS Integers, Sequences, FiniteSets, TLC

VARIABLES
    \* ---- for_each_console_element (console_elem.rs:216-248)
    input,            \* every byte the source will ever return
    pos,              \* number of bytes of input the source has returned
    buffer,           \* the working buffer, a fixed array of BufSize bytes
    last_end,         \* buffer[..last_end] is what the current iter decodes
    iter,             \* the IterElements over buffer[..last_end]
    already_hit_end,  \* a read returned 0
    delivered,        \* the elements passed to the handler f, in order
    failure,          \* the io::Error met: "None" | "Handler" | "Read"
    pc,               \* "start" | "loop" | "done" (Ok(())) | "failed" (Err)
                      \* | "panicked"
    \* ---- parse_ansi_type (ansi_parsing.rs:29-84)
    ansi,             \* the escape sequence handed to the classifier
    code,             \* its AnsiCodeType, or NoCode before the call
    \* ---- copy_colorized (stream_colors.rs:47-179)
    config,           \* the ColorizerConfig
    policy,           \* which PositionalRecolorizer is driving
    position,         \* (column, row), 0-based
    color,            \* the last applied colour
    output,           \* every write to the sink, in order
    flushes,          \* one entry per output.flush(): the writes made before it
    lastElem,         \* the element the handler ran on last
    prev,             \* position, color and output before that run
    steps,            \* number of elements the handler has been called on
    \* ---- Color::rgb_interpolate (console_color.rs:61-74)
    blend             \* the colours and alpha of a call, and its result

vars == <<input, pos, buffer, last_end, iter, already_hit_end, delivered,
          failure, pc, ansi, code, config, policy, position, color, output, flushes,
          lastElem, prev, steps, blend>>

decVars == <<input, pos, buffer, last_end, iter, already_hit_end, delivered,
            failure>>
ansiVars == <<ansi, code>>
engVars == <<config, policy, position, color, output, flushes, lastElem, prev,
            steps>>
colVars == <<blend>>

---------------------------------------------------------------------------
(* Bounds of the model.                                                    *)

\* The capacity of the working buffer. The program uses 256
\* (console_elem.rs:219); the model scales it down so that inputs longer
\* than the buffer are within reach of the check.
BufSize == 3

\* Longest input the source holds.
MaxInput == 5

\* Machine word width: usize and isize have WordBits bits (64 in the
\* program's usual build; scaled down to fit the checker's integers).
WordBits == 16

---------------------------------------------------------------------------
(* Characters.                                                             *)

LF == 10
CR == 13
TAB == 9
ESC == 27
AT == 64
LBRACKET == 91
DEL == 127

\* Code of the one-character strings used to write byte strings readably.
Code ==
    ("0" :> 48) @@ ("1" :> 49) @@ ("2" :> 50) @@ ("3" :> 51) @@ ("4" :> 52) @@
    ("5" :> 53) @@ ("6" :> 54) @@ ("7" :> 55) @@ ("8" :> 56) @@ ("9" :> 57) @@
    (";" :> 59) @@ ("+" :> 43) @@ ("-" :> 45) @@ ("?" :> 63) @@ (" " :> 32) @@
    ("[" :> 91) @@ ("m" :> 109) @@ ("@" :> 64) @@
    ("A" :> 65) @@ ("B" :> 66) @@ ("C" :> 67) @@ ("D" :> 68) @@ ("E" :> 69) @@
    ("F" :> 70) @@ ("G" :> 71) @@ ("H" :> 72) @@ ("J" :> 74) @@ ("x" :> 120) @@
    ("ESC" :> 27) @@ ("\n" :> 10) @@ ("\r" :> 13) @@ ("\t" :> 9)

\* The bytes of a string written as a tuple of one-character strings.
Str(s) == [i \in 1..Len(s) |-> Code[s[i]]]

\* s[from..] and s[..to] of Rust, on 1-based sequences.
Drop(s, n) == SubSeq(s, n + 1, Len(s))
Take(s, n) == SubSeq(s, 1, n)

starts_with(s, p) == Len(s) >= Len(p) /\ Take(s, Len(p)) = p

---------------------------------------------------------------------------
(* std::str::from_utf8, as console_elem.rs:63 uses it: the validation of   *)
(* core::str, with Utf8Error's valid_up_to and error_len.                  *)

\* Width of the character a first byte announces; 0 for a byte that cannot
\* start a character.
utf8_char_width(b) ==
    IF b < 128 THEN 1
    ELSE IF b >= 194 /\ b <= 223 THEN 2
    ELSE IF b >= 224 /\ b <= 239 THEN 3
    ELSE IF b >= 240 /\ b <= 244 THEN 4
    ELSE 0

\* A continuation byte 10xxxxxx.
IsContinuation(b) == b >= 128 /\ b <= 191

\* The second byte of a 3-byte character, given the first.
SecondOf3(first, b) ==
    \/ first = 224 /\ b >= 160 /\ b <= 191
    \/ first >= 225 /\ first <= 236 /\ IsContinuation(b)
    \/ first = 237 /\ b >= 128 /\ b <= 159
    \/ first >= 238 /\ first <= 239 /\ IsContinuation(b)

\* The second byte of a 4-byte character, given the first.
SecondOf4(first, b) ==
    \/ first = 240 /\ b >= 144 /\ b <= 191
    \/ first >= 241 /\ first <= 243 /\ IsContinuation(b)
    \/ first = 244 /\ b >= 128 /\ b <= 143

\* error_len of Utf8Error: NoneLen is None (the input ended inside a
\* character that may still become valid), 1..3 is Some(n).
NoneLen == 0

\* The character starting at v[i]: [ok |-> TRUE, len] or
\* [ok |-> FALSE, error_len].
CheckChar(v, i) ==
    LET first == v[i]
        n == Len(v)
        w == utf8_char_width(first)
        Good(k) == [ok |-> TRUE, len |-> k, error_len |-> NoneLen]
        Bad(k) == [ok |-> FALSE, len |-> 0, error_len |-> k]
    IN  IF w = 1 THEN Good(1)
        ELSE IF w = 2 THEN
            IF i + 1 > n THEN Bad(NoneLen)
            ELSE IF ~IsContinuation(v[i + 1]) THEN Bad(1)
            ELSE Good(2)
        ELSE IF w = 3 THEN
            IF i + 1 > n THEN Bad(NoneLen)
            ELSE IF ~SecondOf3(first, v[i + 1]) THEN Bad(1)
            ELSE IF i + 2 > n THEN Bad(NoneLen)
            ELSE IF ~IsContinuation(v[i + 2]) THEN Bad(2)
            ELSE Good(3)
        ELSE IF w = 4 THEN
            IF i + 1 > n THEN Bad(NoneLen)
            ELSE IF ~SecondOf4(first, v[i + 1]) THEN Bad(1)
            ELSE IF i + 2 > n THEN Bad(NoneLen)
            ELSE IF ~IsContinuation(v[i + 2]) THEN Bad(2)
            ELSE IF i + 3 > n THEN Bad(NoneLen)
            ELSE IF ~IsContinuation(v[i + 3]) THEN Bad(3)
            ELSE Good(4)
        ELSE Bad(1)

RECURSIVE Validate(_, _)
\* run_utf8_validation from byte index i (1-based) on.
Validate(v, i) ==
    IF i > Len(v) THEN [ok |-> TRUE, valid_up_to |-> Len(v), error_len |-> NoneLen]
    ELSE LET c == CheckChar(v, i)
         IN  IF c.ok THEN Validate(v, i + c.len)
             ELSE [ok |-> FALSE, valid_up_to |-> i - 1, error_len |-> c.error_len]

from_utf8(v) == Validate(v, 1)

---------------------------------------------------------------------------
(* Characters and grapheme clusters of a valid &str.                       *)

\* Byte length and code point of the character at text[i].
CharLen(text, i) == utf8_char_width(text[i])

CodePoint(text, i) ==
    LET w == CharLen(text, i)
    IN  IF w = 1 THEN text[i]
        ELSE IF w = 2 THEN (text[i] - 192) * 64 + (text[i + 1] - 128)
        ELSE IF w = 3 THEN
            (text[i] - 224) * 4096 + (text[i + 1] - 128) * 64 + (text[i + 2] - 128)
        ELSE (text[i] - 240) * 262144 + (text[i + 1] - 128) * 4096
             + (text[i + 2] - 128) * 64 + (text[i + 3] - 128)

\* char::is_ascii_control: U+0000..U+001F and U+007F.
is_ascii_control(c) == c < 32 \/ c = DEL

\* Grapheme_Cluster_Break of a code point, for the code points the model
\* reaches: controls, the combining diacritical marks U+0300..U+036F
\* (Extend), and everything else (Other).
GraphemeClass(cp) ==
    IF cp = CR THEN "CR"
    ELSE IF cp = LF THEN "LF"
    ELSE IF cp < 32 \/ (cp >= 127 /\ cp <= 159) THEN "Control"
    ELSE IF cp >= 768 /\ cp <= 879 THEN "Extend"
    ELSE "Other"

RECURSIVE ExtendRun(_, _)
\* The byte index just past the run of Extend characters starting at text[i]
\* (rule GB9: no break before Extend).
ExtendRun(text, i) ==
    IF i <= Len(text) /\ GraphemeClass(CodePoint(text, i)) = "Extend"
    THEN ExtendRun(text, i + CharLen(text, i))
    ELSE i

\* Byte length of the first extended grapheme cluster of a non-empty text,
\* as text.grapheme_indices(true).next() finds it: CR LF stay together
\* (GB3), a control is a cluster of its own (GB4, GB5), Extend characters
\* join what precedes them (GB9), and there is a break everywhere else
\* (GB999).
FirstGraphemeLen(text) ==
    LET cls == GraphemeClass(CodePoint(text, 1))
        w == CharLen(text, 1)
    IN  IF cls = "CR" THEN (IF Len(text) > 1 /\ text[2] = LF THEN 2 ELSE 1)
        ELSE IF cls \in {"LF", "Control"} THEN w
        ELSE ExtendRun(text, 1 + w) - 1

---------------------------------------------------------------------------
(* IterElements (console_elem.rs:41-213). An iterator is a record          *)
(*   [remaining, known_segment, true_end]                                  *)
(* and a known segment is [kind |-> "None" | "RawBytes" | "ValidUtf8",     *)
(* data |-> the bytes of the slice].                                       *)

KnownNone == [kind |-> "None", data |-> <<>>]
RawBytes(x) == [kind |-> "RawBytes", data |-> x]
ValidUtf8(x) == [kind |-> "ValidUtf8", data |-> x]

\* IterElements::new
NewIter(bytes, true_end) ==
    [remaining |-> bytes, known_segment |-> KnownNone, true_end |-> true_end]

\* IterElements::consume
consume(it, amount) == [it EXCEPT !.remaining = Drop(it.remaining, amount)]

\* A ConsoleElem with the bytes it stands for: Newline, CarriageReturn and
\* Tab stand for their one byte, OtherNonPrinting(c) for c, NonUTF8Data(b)
\* for b, Ansi(s) and Grapheme(s) for the bytes of s.
Elem(kind, data) == [kind |-> kind, data |-> data]

\* What a step of the iterator gives back: Ok(elem), Err(NeedMoreData), or
\* a panic of the thread; `it` is the iterator afterwards.
Produced(elem, it) == [tag |-> "Ok", elem |-> elem, it |-> it]
NeedMoreData(it) == [tag |-> "NeedMoreData", elem |-> Elem("None", <<>>), it |-> it]
Panicked(it) == [tag |-> "Panic", elem |-> Elem("None", <<>>), it |-> it]

\* IterElements::try_fetch_next_known: [ok, it].
try_fetch_next_known(it) ==
    LET r == from_utf8(it.remaining)
    IN  IF r.ok THEN
            [ok |-> TRUE,
             it |-> consume([it EXCEPT !.known_segment = ValidUtf8(it.remaining)],
                            Len(it.remaining))]
        ELSE IF r.valid_up_to > 0 THEN
            [ok |-> TRUE,
             it |-> consume([it EXCEPT !.known_segment =
                                ValidUtf8(Take(it.remaining, r.valid_up_to))],
                            r.valid_up_to)]
        ELSE IF r.error_len # NoneLen THEN
            [ok |-> TRUE,
             it |-> consume([it EXCEPT !.known_segment =
                                RawBytes(Take(it.remaining, r.error_len))],
                            r.error_len)]
        ELSE [ok |-> FALSE, it |-> it]

RECURSIVE ScanEscape(_, _)
\* The while loop of console_elem.rs:110-117 with `length` characters
\* already scanned: [found, length, panic]. `remaining = &remaining[1..]`
\* slices one BYTE off, which panics when the character just read is longer
\* than one byte.
ScanEscape(text, length) ==
    IF length >= Len(text) THEN [found |-> FALSE, length |-> length, panic |-> FALSE]
    ELSE LET next == text[length + 1]
         IN  IF CharLen(text, length + 1) > 1
             THEN [found |-> FALSE, length |-> length + 1, panic |-> TRUE]
             ELSE IF next > AT /\ (next # LBRACKET \/ length + 1 > 2)
             THEN [found |-> TRUE, length |-> length + 1, panic |-> FALSE]
             ELSE ScanEscape(text, length + 1)

\* The tail of consume_from_utf8 (console_elem.rs:158-163).
AfterUtf8(it, kind, text, n) ==
    Produced(Elem(kind, Take(text, n)),
             [it EXCEPT !.known_segment =
                 IF Drop(text, n) = <<>> THEN KnownNone ELSE ValidUtf8(Drop(text, n))])

\* IterElements::consume_from_utf8; known_segment is ValidUtf8.
consume_from_utf8(it) ==
    LET text == it.known_segment.data
    IN  IF starts_with(text, <<LF>>) THEN AfterUtf8(it, "Newline", text, 1)
        ELSE IF starts_with(text, <<CR>>) THEN AfterUtf8(it, "CarriageReturn", text, 1)
        ELSE IF starts_with(text, <<TAB>>) THEN AfterUtf8(it, "Tab", text, 1)
        ELSE IF starts_with(text, <<ESC>>) THEN
            LET s == ScanEscape(text, 0)
            IN  IF s.panic THEN Panicked(it)
                ELSE IF ~s.found /\ ~it.true_end THEN NeedMoreData(it)
                ELSE AfterUtf8(it, "Ansi", text, s.length)
        ELSE IF text = <<>> THEN NeedMoreData(it)
        ELSE IF is_ascii_control(CodePoint(text, 1))
            THEN AfterUtf8(it, "OtherNonPrinting", text, 1)
        ELSE
            LET g == FirstGraphemeLen(text)
                next_is_none == g = Len(text)
            IN  IF next_is_none /\ ~it.true_end THEN NeedMoreData(it)
                ELSE AfterUtf8(it, "Grapheme", text, g)

\* consume_from_raw giving the whole raw segment as one element.
consume_from_raw_WholeSegment(it) ==
    Produced(Elem("NonUTF8Data", it.known_segment.data),
             [it EXCEPT !.known_segment = KnownNone])

\* IterElements::consume_from_raw; known_segment is RawBytes.
consume_from_raw(it) ==
    LET raw == it.known_segment.data
    IN  Produced(Elem("NonUTF8Data", Take(raw, 1)),
                 [it EXCEPT !.known_segment =
                     IF Drop(raw, 1) = <<>> THEN KnownNone ELSE RawBytes(Drop(raw, 1))])

\* IterElements::try_get_next_element
try_get_next_element(it) ==
    LET f == IF it.known_segment.kind = "None"
             THEN try_fetch_next_known(it)
             ELSE [ok |-> TRUE, it |-> it]
    IN  IF ~f.ok THEN NeedMoreData(it)
        ELSE IF f.it.known_segment.kind = "RawBytes" THEN consume_from_raw(f.it)
        ELSE consume_from_utf8(f.it)

\* IterElements::slop_bytes
slop_bytes(it) == Len(it.remaining) + Len(it.known_segment.data)

RECURSIVE DecodeFrom(_, _)
\* Every element an iterator yields until it first answers NeedMoreData (or
\* panics), after those in `acc`: [elems, tag].
DecodeFrom(it, acc) ==
    LET r == try_get_next_element(it)
    IN  IF r.tag = "Ok" THEN DecodeFrom(r.it, Append(acc, r.elem))
        ELSE [elems |-> acc, tag |-> r.tag]

\* Decoding `bytes` as one final chunk: IterElements::new(bytes, true).
DecodeFinal(bytes) == DecodeFrom(NewIter(bytes, TRUE), <<>>)

RECURSIVE Bytes(_)
\* The underlying bytes of a sequence of elements, in order.
Bytes(elems) ==
    IF elems = <<>> THEN <<>> ELSE Head(elems).data \o Bytes(Tail(elems))

---------------------------------------------------------------------------
(* for_each_console_element (console_elem.rs:216-248).                     *)

\* The bytes the inputs of Spec are made of: the base letter A, the two
\* bytes of U+0301 COMBINING ACUTE ACCENT (0xCC 0x81), the byte 0xFF that no
\* UTF-8 text holds, ESC and the newline.
BaseLetter == <<65>>
Accent == <<204, 129>>
DecAlphabet == {65, 204, 129, 255, ESC, LF}

RECURSIVE SeqsUpTo(_, _)
\* The sequences over S of length at most n.
SeqsUpTo(S, n) ==
    IF n = 0 THEN {<<>>}
    ELSE LET shorter == SeqsUpTo(S, n - 1)
         IN  shorter \cup {Append(s, x) : s \in {t \in shorter : Len(t) = n - 1}, x \in S}

Inputs == SeqsUpTo(DecAlphabet, MaxInput)

Min(a, b) == IF a < b THEN a ELSE b
Max(a, b) == IF a > b THEN a ELSE b

\* The values Read::read may return for a destination of `cap` bytes: 0 for
\* an empty destination or an exhausted source, else any count from 1 up to
\* what fits and what is left.
ReadAmounts(cap) ==
    IF cap = 0 \/ pos = Len(input) THEN {0}
    ELSE 1..Min(cap, Len(input) - pos)

\* buffer after i.read(&mut buffer[at..]) returned n: the next n bytes of
\* the input land at buffer[at..at+n].
ReadInto(buf, at, n) ==
    [i \in 1..BufSize |-> IF i > at /\ i <= at + n THEN input[pos + (i - at)] ELSE buf[i]]

\* buffer.copy_within(src.., 0) moving nothing.
copy_within_Nothing(buf, src) == buf

\* buffer.copy_within(src.., 0)
copy_within(buf, src) ==
    [i \in 1..BufSize |-> IF i <= BufSize - src THEN buf[i + src] ELSE buf[i]]

\* The values the idle parts hold while another specification runs.
NoCode == [type |-> "NoCode"]
NoElem == Elem("None", <<>>)
NoBlend == [self |-> <<0, 0, 0>>, other |-> <<0, 0, 0>>, alpha |-> 0,
            result |-> <<0, 0, 0>>]
IdleDecoder ==
    /\ input = <<>>
    /\ pos = 0
    /\ buffer = [i \in 1..BufSize |-> 0]
    /\ last_end = 0
    /\ iter = NewIter(<<>>, FALSE)
    /\ already_hit_end = FALSE
    /\ delivered = <<>>
    /\ failure = "None"
IdleAnsi ==
    /\ ansi = <<>>
    /\ code = NoCode
IdleEngine ==
    /\ config = [supports_rgb24 |-> TRUE, wraps_after |-> "None",
                 tab_size |-> 8, flush_on_newline |-> TRUE]
    /\ policy = "Constant"
    /\ position = <<0, 0>>
    /\ color = <<0, 0, 0>>
    /\ output = <<>>
    /\ flushes = <<>>
    /\ lastElem = NoElem
    /\ prev = [position |-> <<0, 0>>, color |-> <<0, 0, 0>>, output |-> <<>>]
    /\ steps = 0
IdleColor == blend = NoBlend

\* console_elem.rs:219-221, before the first read.
Init ==
    /\ input \in Inputs
    /\ pos = 0
    /\ buffer = [i \in 1..BufSize |-> 0]
    /\ last_end = 0
    /\ iter = NewIter(<<>>, FALSE)
    /\ already_hit_end = FALSE
    /\ delivered = <<>>
    /\ failure = "None"
    /\ pc = "start"
    /\ IdleAnsi
    /\ IdleEngine
    /\ IdleColor

\* The `?` after a call with the error dropped: the run goes on.
AfterCall_ErrorIgnored(ok, continue_at) == continue_at

\* The `?` of console_elem.rs:223, 231 and 240: where the run is after a
\* call that returned Ok (ok) or Err: Err returns from the function.
AfterCall(ok, continue_at) == IF ok THEN continue_at ELSE "failed"

\* console_elem.rs:223-227: the first read and the first iterator, or the
\* first read fails.
FirstRead ==
    /\ pc = "start"
    /\ \E ok \in BOOLEAN :
        /\ pc' = AfterCall(ok, "loop")
        /\ IF ok
           THEN /\ \E amount \in ReadAmounts(BufSize) :
                    /\ buffer' = ReadInto(buffer, 0, amount)
                    /\ pos' = pos + amount
                    /\ already_hit_end' = (amount = 0)
                    /\ iter' = NewIter(Take(buffer', amount), amount = 0)
                    /\ last_end' = amount
                /\ UNCHANGED failure
           ELSE /\ failure' = "Read"
                /\ UNCHANGED <<buffer, pos, already_hit_end, iter, last_end>>
    /\ UNCHANGED <<input, delivered>>
    /\ UNCHANGED <<ansiVars, engVars, colVars>>

\* console_elem.rs:230-231: Ok(elem) => f(elem)?, with a handler that
\* records the element and returns Ok or an error.
Deliver ==
    /\ pc = "loop"
    /\ \E r \in {try_get_next_element(iter)} :
           /\ r.tag = "Ok"
           /\ delivered' = Append(delivered, r.elem)
           /\ iter' = r.it
    /\ \E ok \in BOOLEAN :
        /\ failure' = IF ok THEN failure ELSE "Handler"
        /\ pc' = AfterCall(ok, "loop")
    /\ UNCHANGED <<input, pos, buffer, last_end, already_hit_end>>
    /\ UNCHANGED <<ansiVars, engVars, colVars>>

\* console_elem.rs:112: the slice in the escape scan panics and unwinds out
\* of for_each_console_element.
Panic ==
    /\ pc = "loop"
    /\ try_get_next_element(iter).tag = "Panic"
    /\ pc' = "panicked"
    /\ UNCHANGED decVars
    /\ UNCHANGED <<ansiVars, engVars, colVars>>

\* NeedMoreData after the end was hit, with the return left out: the loop
\* goes round again.
Finish_KeepsLooping ==
    /\ pc = "loop"
    /\ try_get_next_element(iter).tag = "NeedMoreData"
    /\ already_hit_end
    /\ UNCHANGED vars

\* console_elem.rs:232-235: NeedMoreData after the end was hit.
Finish ==
    /\ pc = "loop"
    /\ try_get_next_element(iter).tag = "NeedMoreData"
    /\ already_hit_end
    /\ pc' = "done"
    /\ UNCHANGED decVars
    /\ UNCHANGED <<ansiVars, engVars, colVars>>

\* console_elem.rs:236-244: keep the slop, read after it, start over; or
\* the read fails, after the slop was moved.
Refill ==
    /\ pc = "loop"
    /\ ~already_hit_end
    /\ \E r \in {try_get_next_element(iter)} :
       \E slop \in {slop_bytes(r.it)} :
       \E moved \in {copy_within(buffer, last_end - slop)} :
           /\ r.tag = "NeedMoreData"
           /\ \E ok \in BOOLEAN :
                /\ pc' = AfterCall(ok, "loop")
                /\ IF ok
                   THEN /\ \E amount \in ReadAmounts(BufSize - slop) :
                            /\ buffer' = ReadInto(moved, slop, amount)
                            /\ pos' = pos + amount
                            /\ already_hit_end' = (amount = 0)
                            /\ iter' = NewIter(Take(buffer', slop + amount), amount = 0)
                            /\ last_end' = slop + amount
                        /\ UNCHANGED failure
                   ELSE /\ buffer' = moved
                        /\ failure' = "Read"
                        /\ UNCHANGED <<pos, already_hit_end, iter, last_end>>
    /\ UNCHANGED <<input, delivered>>
    /\ UNCHANGED <<ansiVars, engVars, colVars>>

Next ==
    \/ FirstRead
    \/ Deliver
    \/ Panic
    \/ Finish
    \/ Refill

Spec == Init /\ [][Next]_vars

\* The inputs of SpecLive: the two bytes of U+0301 (alone, 0xCC is an
\* incomplete tail and 0x81 an invalid byte) and ESC, which opens an escape
\* sequence that neither of them ends; up to one byte more than the buffer
\* holds.
LiveAlphabet == {204, 129, ESC}
MaxLiveInput == 4
LiveInputs == SeqsUpTo(LiveAlphabet, MaxLiveInput)

\* console_elem.rs:219-221, before the first read.
InitLive ==
    /\ input \in LiveInputs
    /\ pos = 0
    /\ buffer = [i \in 1..BufSize |-> 0]
    /\ last_end = 0
    /\ iter = NewIter(<<>>, FALSE)
    /\ already_hit_end = FALSE
    /\ delivered = <<>>
    /\ failure = "None"
    /\ pc = "start"
    /\ IdleAnsi
    /\ IdleEngine
    /\ IdleColor
\* The driver as a running program: the thread takes its next step whenever
\* it has one, and the source and the handler answer every call.
SpecLive == InitLive /\ [][Next]_vars /\ WF_vars(Next)

---------------------------------------------------------------------------
(* IterElements on one chunk: new(bytes, true_end), then                   *)
(* try_get_next_element until it answers NeedMoreData.                     *)

\* The bytes of the chunks: ESC, '[', 'A', ';' and '@' for the escape scan;
\* 0xCC 0x81 (U+0301) as a multi-byte character; 0xE1, which opens a
\* three-byte character and is invalid before anything but two
\* continuation bytes; and 0xFF, which no UTF-8 text holds.
IterAlphabet == {ESC, LBRACKET, 65, 59, AT, 204, 129, 225, 255}

\* Longest chunk.
MaxChunk == 4

IterInputs == SeqsUpTo(IterAlphabet, MaxChunk)

\* IterElements::new over a chunk, final or not.
InitIter ==
    /\ input \in IterInputs
    /\ \E true_end \in BOOLEAN : iter = NewIter(input, true_end)
    /\ pos = 0
    /\ buffer = [i \in 1..BufSize |-> 0]
    /\ last_end = 0
    /\ already_hit_end = FALSE
    /\ delivered = <<>>
    /\ failure = "None"
    /\ pc = "iter"
    /\ IdleAnsi
    /\ IdleEngine
    /\ IdleColor

\* One call of try_get_next_element: an element, NeedMoreData, or a panic.
NextElement ==
    /\ pc = "iter"
    /\ LET r == try_get_next_element(iter)
       IN  /\ iter' = r.it
           /\ delivered' = IF r.tag = "Ok" THEN Append(delivered, r.elem) ELSE delivered
           /\ pc' = IF r.tag = "Ok" THEN "iter"
                    ELSE IF r.tag = "NeedMoreData" THEN "need"
                    ELSE "panicked"
    /\ UNCHANGED <<input, pos, buffer, last_end, already_hit_end, failure>>
    /\ UNCHANGED <<ansiVars, engVars, colVars>>

NextIter == NextElement

SpecIter == InitIter /\ [][NextIter]_vars

---------------------------------------------------------------------------
(* Machine integers.                                                       *)

UsizeMax == 2 ^ WordBits - 1
IsizeMax == 2 ^ (WordBits - 1) - 1
IsizeMin == -(2 ^ (WordBits - 1))

\* `x as usize` for an isize x, and `x as isize` back.
AsUsize(x) == x % (2 ^ WordBits)
AsIsize(x) == IF AsUsize(x) > IsizeMax
              THEN AsUsize(x) - 2 ^ WordBits
              ELSE AsUsize(x)

\* isize arithmetic that wraps, as in a build without overflow checks.
WrapIsize(x) == AsIsize(x)

saturating_add(a, b) == Min(a + b, UsizeMax)
saturating_sub(a, b) == Max(a - b, 0)

---------------------------------------------------------------------------
(* parse_ansi_type (ansi_parsing.rs).                                      *)

IsDigit(c) == c >= 48 /\ c <= 57

RECURSIVE DigitsValue(_, _)
\* The number the decimal digits s continue from acc; -1 once it has left
\* the isize range (the checked arithmetic of str::parse fails).
DigitsValue(s, acc) ==
    IF s = <<>> THEN acc
    ELSE IF acc * 10 + (Head(s) - 48) > IsizeMax + 1 THEN -1
    ELSE DigitsValue(Tail(s), acc * 10 + (Head(s) - 48))

\* str::parse::<isize>: an optional sign, then one or more decimal digits,
\* the value within isize; [ok, val].
ParseIsize(s) ==
    LET signed == s # <<>> /\ Head(s) \in {43, 45}
        digits == IF signed THEN Tail(s) ELSE s
        mag == DigitsValue(digits, 0)
        val == IF signed /\ Head(s) = 45 THEN -mag ELSE mag
    IN  IF digits = <<>> \/ \E k \in 1..Len(digits) : ~IsDigit(digits[k])
            THEN [ok |-> FALSE, val |-> 0]
        ELSE IF mag < 0 \/ val > IsizeMax THEN [ok |-> FALSE, val |-> 0]
        ELSE [ok |-> TRUE, val |-> val]

\* Result::unwrap_or
unwrap_or(r, default) == IF r.ok THEN r.val ELSE default

\* str::find(';'): the 0-based index of the first ';', or -1 for None.
FindSemicolon(s) ==
    IF \E k \in 1..Len(s) : s[k] = 59
    THEN (CHOOSE k \in 1..Len(s) : s[k] = 59 /\ \A j \in 1..(k - 1) : s[j] # 59) - 1
    ELSE -1

\* take_one_argument: [rest, value].
take_one_argument(remaining, default) ==
    IF remaining = <<>> THEN [rest |-> <<>>, value |-> 0]
    ELSE LET i == FindSemicolon(remaining)
         IN  IF i >= 0
             THEN [rest |-> Drop(remaining, i),
                   value |-> unwrap_or(ParseIsize(Take(remaining, i)), default)]
             ELSE [rest |-> <<>>,
                   value |-> unwrap_or(ParseIsize(remaining), default)]

\* Option
None == [some |-> FALSE, val |-> 0]
Some(x) == [some |-> TRUE, val |-> x]

\* AnsiCodeType
ResetStyle == [type |-> "ResetStyle", a |-> None, b |-> None]
SetColor == [type |-> "SetColor", a |-> None, b |-> None]
Other == [type |-> "Other", a |-> None, b |-> None]
MoveCursor(col, row) == [type |-> "MoveCursor", a |-> col, b |-> row]
SetCursor(col, row) == [type |-> "SetCursor", a |-> col, b |-> row]

\* StyleMode with the default of the cursor codes: an argument that does
\* not parse no longer counts as 0.
StyleMode_DefaultOne(args) == take_one_argument(args, 1).value

\* The `m` arm (ansi_parsing.rs:35-45) but for the SetColor test: the mode
\* is the first argument, 0 when it does not parse.
StyleMode(args) == take_one_argument(args, 0).value

\* RelativeMove with the signs of up/down and left/right exchanged.
RelativeMove_SignsSwapped(t, args) ==
    LET count == take_one_argument(args, 1).value
    IN  IF t = Code["A"] THEN MoveCursor(None, Some(count))
        ELSE IF t = Code["B"] THEN MoveCursor(None, Some(WrapIsize(-count)))
        ELSE IF t = Code["C"] THEN MoveCursor(Some(WrapIsize(-count)), None)
        ELSE MoveCursor(Some(count), None)

\* The arms A, B, C, D (ansi_parsing.rs:47-61) for a terminator t.
RelativeMove(t, args) ==
    LET count == take_one_argument(args, 1).value
    IN  IF t = Code["A"] THEN MoveCursor(None, Some(WrapIsize(-count)))
        ELSE IF t = Code["B"] THEN MoveCursor(None, Some(count))
        ELSE IF t = Code["C"] THEN MoveCursor(Some(count), None)
        ELSE MoveCursor(Some(WrapIsize(-count)), None)

\* The arms E, F (ansi_parsing.rs:64-70).
LineMove(t, args) ==
    LET cols == take_one_argument(args, 1).value
    IN  IF t = Code["E"] THEN MoveCursor(Some(IsizeMin), Some(cols))
        ELSE MoveCursor(Some(IsizeMin), Some(WrapIsize(-cols)))

\* The arms G, H (ansi_parsing.rs:72-79).
AbsoluteMove(t, args) ==
    IF t = Code["G"]
    THEN LET col == take_one_argument(args, 1).value
         IN  SetCursor(Some(AsUsize(WrapIsize(col - 1))), None)
    ELSE LET first == take_one_argument(args, 1)
             row == first.value
             col == take_one_argument(first.rest, 1).value
         IN  SetCursor(Some(AsUsize(WrapIsize(col - 1))),
                       Some(AsUsize(WrapIsize(row - 1))))

\* parse_ansi_type. Past the length test the sequence has a last byte t,
\* and ansi.ends_with(c) and ansi[1..].ends_with(c) both say t = c.
parse_ansi_type(a) ==
    IF Len(a) <= 2 THEN Other
    ELSE LET args == SubSeq(a, 3, Len(a) - 1)
             t == a[Len(a)]
         IN  IF t = Code["m"] THEN
                 IF starts_with(Drop(a, 1), Str(<<"[", "3">>)) THEN SetColor
                 ELSE IF StyleMode(args) = 0 THEN ResetStyle
                 ELSE Other
             ELSE IF t \in {Code["A"], Code["B"], Code["C"], Code["D"]}
                 THEN RelativeMove(t, args)
             ELSE IF t \in {Code["E"], Code["F"]} THEN LineMove(t, args)
             ELSE IF t \in {Code["G"], Code["H"]} THEN AbsoluteMove(t, args)
             ELSE Other

\* "ESC[" body, written as one-character strings.
Csi(body) == <<ESC, LBRACKET>> \o Str(body)

\* Longest argument text between "ESC[" and the terminator.
MaxArgs == 3

\* The characters of the argument texts: digits, the separator, a sign.
ArgChars == {Code[c] : c \in {"0", "1", "3", "5", "7", ";", "-"}}
Terminators == {Code[c] : c \in {"m", "A", "B", "C", "D", "E", "F", "G", "H", "J"}}

\* The sequences the classifier is applied to: "ESC[" args terminator for
\* every argument text and terminator, the same without the '[', the
\* sequences of at most two bytes, and the spec's 24-bit colour example.
AnsiInputs ==
    {<<ESC, LBRACKET>> \o args \o <<t>> :
        args \in SeqsUpTo(ArgChars, MaxArgs), t \in Terminators}
    \cup {<<ESC>> \o args \o <<t>> :
        args \in SeqsUpTo(ArgChars \ {Code["-"]}, 2) \ {<<>>}, t \in Terminators}
    \cup {<<ESC>>, <<ESC, LBRACKET>>} \cup {<<ESC, t>> : t \in Terminators}
    \cup {<<ESC>> \o Str(<<"[", "3", "8", ";", "2", ";", "1", "0", ";", "2", "0",
                          ";", "3", "0", "m">>)}

InitAnsi ==
    /\ ansi \in AnsiInputs
    /\ code = NoCode
    /\ pc = "classify"
    /\ IdleDecoder
    /\ IdleEngine
    /\ IdleColor

\* One call of parse_ansi_type.
Classify ==
    /\ pc = "classify"
    /\ code' = parse_ansi_type(ansi)
    /\ pc' = "classified"
    /\ UNCHANGED ansi
    /\ UNCHANGED <<decVars, engVars, colVars>>

NextAnsi == Classify

SpecAnsi == InitAnsi /\ [][NextAnsi]_vars

---------------------------------------------------------------------------
(* Color (console_color.rs): a colour is <<r, g, b>>.                      *)

RECURSIVE DecimalDigits(_)
\* Display of an unsigned integer: its decimal digits, no leading zero.
DecimalDigits(n) ==
    IF n < 10 THEN <<48 + n>>
    ELSE Append(DecimalDigits(n \div 10), 48 + (n % 10))

\* ANSI_PALETTE (console_color.rs:7-16): <<(a, b), Color>> in order.
ANSI_PALETTE == <<
    <<<<0, 30>>, <<0, 0, 0>>>>,
    <<<<0, 31>>, <<200, 0, 0>>>>,
    <<<<0, 32>>, <<0, 200, 0>>>>,
    <<<<0, 33>>, <<200, 200, 0>>>>,
    <<<<0, 34>>, <<0, 0, 200>>>>,
    <<<<0, 35>>, <<200, 0, 200>>>>,
    <<<<0, 36>>, <<0, 200, 200>>>>,
    <<<<0, 37>>, <<255, 255, 255>>>> >>

\* Color::lookup_index
lookup_index(c) == (c[1] * 256 + c[2]) * 256 + c[3]

abs_diff(a, b) == IF a > b THEN a - b ELSE b - a

\* Color::dist2
dist2(c, other) ==
    abs_diff(c[1], other[1]) * abs_diff(c[1], other[1])
    + abs_diff(c[2], other[2]) * abs_diff(c[2], other[2])
    + abs_diff(c[3], other[3]) * abs_diff(c[3], other[3])

\* COLOR_LOOKUP[index] (console_color.rs:20-36): the pair of the first
\* palette entry nearest to the colour stored at that index.
COLOR_LOOKUP(index) ==
    LET this_col == <<index \div 65536, (index \div 256) % 256, index % 256>>
        nearest == CHOOSE k \in 1..Len(ANSI_PALETTE) :
            /\ \A j \in 1..Len(ANSI_PALETTE) :
                dist2(ANSI_PALETTE[k][2], this_col) <= dist2(ANSI_PALETTE[j][2], this_col)
            /\ \A j \in 1..(k - 1) :
                dist2(ANSI_PALETTE[j][2], this_col) > dist2(ANSI_PALETTE[k][2], this_col)
    IN  ANSI_PALETTE[nearest][1]

\* Color::write_as_24bit_ansi: the bytes written.
write_as_24bit_ansi(c) ==
    <<ESC>> \o Str(<<"[", "3", "8", ";", "2", ";">>) \o DecimalDigits(c[1])
    \o <<59>> \o DecimalDigits(c[2]) \o <<59>> \o DecimalDigits(c[3]) \o Str(<<"m">>)

\* Color::write_as_paletted_ansi: the bytes written.
write_as_paletted_ansi(c) ==
    LET ab == COLOR_LOOKUP(lookup_index(c))
    IN  <<ESC, LBRACKET>> \o DecimalDigits(ab[1]) \o <<59>> \o DecimalDigits(ab[2])
        \o Str(<<"m">>)

\* alpha is a multiple of 1/AlphaDen between 0 and 1: alpha = n / AlphaDen
\* is held as n.
AlphaDen == 4

\* u8::MAX and u16::MAX
U8Max == 255
U16Max == 65535

\* beta = (alpha * 255f32) as u16 (console_color.rs:66): the product is
\* truncated towards zero and saturates at the ends of u16.
Beta(n) == Max(0, Min(U16Max, (n * U8Max) \div AlphaDen))

\* The u16 sum a channel is computed from, before any wrap-around
\* (console_color.rs:70-72), with gamma = 255 - beta.
Intermediate(t, o, beta) == t * (U8Max - beta) + o * beta

\* One channel with the shift by 7 instead of 8.
Channel_ShiftBySeven(t, o, beta) ==
    (((Intermediate(t, o, beta) % (U16Max + 1)) \div 128) % (U8Max + 1))

\* One channel of the result: ((t as u16) * gamma + (o as u16) * beta) >> 8
\* as u8, the u16 arithmetic wrapping around.
Channel(t, o, beta) ==
    (((Intermediate(t, o, beta) % (U16Max + 1)) \div 256) % (U8Max + 1))

\* Color::rgb_interpolate
rgb_interpolate(self, other, n) ==
    [ch \in 1..3 |-> Channel(self[ch], other[ch], Beta(n))]

\* The channel values and colours rgb_interpolate is checked on.
ChannelValues == {0, 1, 128, 255}
Colors == {<<r, g, b>> : r \in ChannelValues, g \in ChannelValues, b \in ChannelValues}

InitColor ==
    /\ \E a \in Colors, b \in Colors, n \in 0..AlphaDen :
        blend = [self |-> a, other |-> b, alpha |-> n, result |-> <<0, 0, 0>>]
    /\ pc = "mix"
    /\ IdleDecoder
    /\ IdleAnsi
    /\ IdleEngine

\* One call of rgb_interpolate.
Interpolate ==
    /\ pc = "mix"
    /\ blend' = [blend EXCEPT !.result = rgb_interpolate(blend.self, blend.other, blend.alpha)]
    /\ pc' = "mixed"
    /\ UNCHANGED <<decVars, ansiVars, engVars>>

NextColor == Interpolate

SpecColor == InitColor /\ [][NextColor]_vars

---------------------------------------------------------------------------
(* copy_colorized for a PositionalRecolorizer (stream_colors.rs:46-180).   *)

\* The policies driving the engine: one colour everywhere, or two colours
\* alternating from cell to cell.
Policies == {"Constant", "Stripes"}

\* PositionalRecolorizer::get_color
get_color(pol, p) ==
    IF pol = "Constant" THEN <<10, 20, 30>>
    ELSE IF (p[1] + p[2]) % 2 = 0 THEN <<200, 0, 0>>
    ELSE <<0, 0, 200>>

\* The configurations: both encodings, no wrap width or a width of 3, tab
\* stops every 4 columns, flushing or not.
Configs ==
    [supports_rgb24 : BOOLEAN,
     wraps_after : {None, Some(3)},
     tab_size : {4},
     flush_on_newline : BOOLEAN]

\* config.wraps_after.unwrap_or(usize::MAX) (stream_colors.rs:48)
wrap_column == IF config.wraps_after.some THEN config.wraps_after.val ELSE UsizeMax

\* The bytes one `if config.supports_rgb24 {..} else {..}` writes for c.
ColorEscape(c) ==
    IF config.supports_rgb24 THEN write_as_24bit_ansi(c) ELSE write_as_paletted_ansi(c)

\* The escape sequences the engine is fed.
EngineAnsi ==
    {Csi(body) : body \in {
        <<"0", "m">>, <<"m">>, <<"1", "m">>, <<"3", "1", "m">>,
        <<"2", "D">>, <<"3", "A">>, <<"2", "C">>, <<"1", "B">>,
        <<"2", "E">>, <<"1", "F">>,
        <<"5", "G">>, <<"2", ";", "3", "H">>, <<"H">>,
        <<"0", "G">>, <<"-", "1", "G">>,
        <<"9", "1", "m">>, <<"1", ";", "3", "1", "m">>,
        <<"2", "J">>}}
    \cup {<<ESC, Code["A"]>>}

\* Most elements one run of the engine handles.
MaxSteps == 2

\* The state before a handler call, kept for the claims.
Before == [position |-> position, color |-> color, output |-> output]

InitEngine ==
    /\ config \in Configs
    /\ policy \in Policies
    /\ position = <<0, 0>>
    /\ color = <<0, 0, 0>>
    /\ output = <<>>
    /\ flushes = <<>>
    /\ lastElem = NoElem
    /\ prev = [position |-> <<0, 0>>, color |-> <<0, 0, 0>>, output |-> <<>>]
    /\ steps = 0
    /\ pc = "begin"
    /\ IdleDecoder
    /\ IdleAnsi
    /\ IdleColor

\* stream_colors.rs:51-57: the colour of (0,0) is queried and written.
Begin ==
    /\ pc = "begin"
    /\ color' = get_color(policy, <<0, 0>>)
    /\ output' = Append(output, ColorEscape(color'))
    /\ pc' = "run"
    /\ UNCHANGED <<config, policy, position, flushes, lastElem, prev, steps>>
    /\ UNCHANGED <<decVars, ansiVars, colVars>>

\* What every call of the handler closure has in common: the run is on,
\* and the call is recorded.
Handling(elem) ==
    /\ pc = "run"
    /\ steps < MaxSteps
    /\ steps' = steps + 1
    /\ lastElem' = elem
    /\ prev' = Before
    /\ UNCHANGED <<config, policy>>
    /\ UNCHANGED <<decVars, ansiVars, colVars>>

\* A usize sum or product left the word: a build with overflow checks
\* panics there, one without wraps around.
Overflows(x) == x > UsizeMax

\* The handler panicked on an arithmetic overflow after writing `written`.
PanicsAfter(written) ==
    /\ pc' = "panicked"
    /\ output' = output \o written
    /\ UNCHANGED <<position, flushes>>

\* stream_colors.rs:62-65
HandleCarriageReturn ==
    /\ Handling(Elem("CarriageReturn", <<CR>>))
    /\ position' = <<0, position[2]>>
    /\ output' = Append(output, <<CR>>)
    /\ UNCHANGED <<color, flushes, pc>>

\* stream_colors.rs:68-75
HandleNewline ==
    /\ Handling(Elem("Newline", <<LF>>))
    /\ \/ /\ position' = <<0, AsUsize(position[2] + 1)>>
          /\ output' = Append(output, <<LF>>)
          /\ flushes' = IF config.flush_on_newline
                        THEN Append(flushes, Len(output'))
                        ELSE flushes
          /\ UNCHANGED <<color, pc>>
       \/ /\ Overflows(position[2] + 1)
          /\ PanicsAfter(<<>>)
          /\ UNCHANGED color

\* The column a Tab leaves the cursor in (stream_colors.rs:79-82).
TabColumn(col) ==
    LET stop == AsUsize((col \div config.tab_size + 1) * config.tab_size)
    IN  IF stop >= wrap_column THEN wrap_column - 1 ELSE stop

\* stream_colors.rs:78-84
HandleTab ==
    /\ Handling(Elem("Tab", <<TAB>>))
    /\ \/ /\ position' = <<TabColumn(position[1]), position[2]>>
          /\ output' = Append(output, <<TAB>>)
          /\ UNCHANGED <<color, flushes, pc>>
       \/ /\ Overflows((position[1] \div config.tab_size + 1) * config.tab_size)
          /\ PanicsAfter(<<>>)
          /\ UNCHANGED color

\* The writes of the Grapheme arm with the colour written every time.
GraphemeWrites_AlwaysColor(new_color, grapheme) ==
    <<ColorEscape(new_color), grapheme>>

\* The writes of the Grapheme arm with the colour after the grapheme.
GraphemeWrites_ColorAfter(new_color, grapheme) ==
    IF new_color # color THEN <<grapheme, ColorEscape(new_color)>> ELSE <<grapheme>>

\* The writes of the Grapheme arm (stream_colors.rs:89-99).
GraphemeWrites(new_color, grapheme) ==
    IF new_color # color THEN <<ColorEscape(new_color), grapheme>> ELSE <<grapheme>>

\* The position after a Grapheme (stream_colors.rs:100-104).
AfterGrapheme(p) ==
    LET col == AsUsize(p[1] + 1)
    IN  IF col >= wrap_column THEN <<col - wrap_column, AsUsize(p[2] + 1)>>
        ELSE <<col, p[2]>>

\* stream_colors.rs:88-105
HandleGrapheme ==
    \E grapheme \in {BaseLetter, BaseLetter \o Accent} :
        LET new_color == get_color(policy, position)
        IN  /\ Handling(Elem("Grapheme", grapheme))
            /\ \/ /\ color' = new_color
                  /\ output' = output \o GraphemeWrites(new_color, grapheme)
                  /\ position' = AfterGrapheme(position)
                  /\ UNCHANGED <<flushes, pc>>
               \/ /\ \/ Overflows(position[1] + 1)
                     \/ AsUsize(position[1] + 1) >= wrap_column
                            /\ Overflows(position[2] + 1)
                  /\ PanicsAfter(GraphemeWrites(new_color, grapheme))
                  /\ color' = new_color

\* stream_colors.rs:109-111, with the bell as the character.
HandleOtherNonPrinting ==
    /\ Handling(Elem("OtherNonPrinting", <<7>>))
    /\ output' = Append(output, <<7>>)
    /\ UNCHANGED <<position, color, flushes, pc>>

\* stream_colors.rs:172-174
HandleNonUTF8Data ==
    /\ Handling(Elem("NonUTF8Data", <<255>>))
    /\ output' = Append(output, <<255>>)
    /\ UNCHANGED <<position, color, flushes, pc>>

\* The writes of the ResetStyle arm with the re-applied colour left out.
ResetStyleWrites_NoReapply(esc_sequence) == <<esc_sequence>>

\* The writes of the ResetStyle arm (stream_colors.rs:117-124).
ResetStyleWrites(esc_sequence) == <<esc_sequence, ColorEscape(color)>>

\* The writes of the SetColor arm with the sequence forwarded.
SetColorWrites_Forwarded(esc_sequence) == <<esc_sequence>>

\* The writes of the SetColor arm (stream_colors.rs:127): none.
SetColorWrites(esc_sequence) == <<>>

\* The writes of the `_` arm with the applied colour written after the
\* sequence, as the ResetStyle arm does.
OtherWrites_Recolored(esc_sequence) == <<esc_sequence, ColorEscape(color)>>

\* The writes of the `_` arm (stream_colors.rs:165-167).
OtherWrites(esc_sequence) == <<esc_sequence>>

\* One coordinate after a relative move by d (stream_colors.rs:144-148 and
\* 151-155).
MovedBy(coord, d) ==
    IF d > 0 THEN saturating_add(coord, AsUsize(d))
    ELSE saturating_sub(coord, AsUsize(d))

\* The position after MoveCursor(col, row) (stream_colors.rs:142-156).
AfterMoveCursor(p, col, row) ==
    <<IF col.some THEN MovedBy(p[1], col.val) ELSE p[1],
      IF row.some THEN MovedBy(p[2], row.val) ELSE p[2]>>

\* AfterSetCursor with a None field sending its coordinate to the origin.
AfterSetCursor_NoneResets(p, col, row) ==
    <<IF col.some THEN col.val ELSE 0, IF row.some THEN row.val ELSE 0>>

\* The position after SetCursor(col, row) (stream_colors.rs:131-137).
AfterSetCursor(p, col, row) ==
    <<IF col.some THEN col.val ELSE p[1], IF row.some THEN row.val ELSE p[2]>>

\* stream_colors.rs:114-168: classify the sequence, then the arm of its
\* code.
HandleAnsi ==
    \E esc_sequence \in EngineAnsi :
        LET c == parse_ansi_type(esc_sequence)
        IN  /\ Handling(Elem("Ansi", esc_sequence))
            /\ output' = output \o
                    (IF c.type = "ResetStyle" THEN ResetStyleWrites(esc_sequence)
                     ELSE IF c.type = "SetColor" THEN SetColorWrites(esc_sequence)
                     ELSE IF c.type = "Other" THEN OtherWrites(esc_sequence)
                     ELSE <<esc_sequence>>)
            /\ position' =
                    IF c.type = "SetCursor" THEN AfterSetCursor(position, c.a, c.b)
                    ELSE IF c.type = "MoveCursor" THEN AfterMoveCursor(position, c.a, c.b)
                    ELSE position
            /\ UNCHANGED <<color, flushes, pc>>

\* for_each_console_element returned: the input is exhausted.
End ==
    /\ pc = "run"
    /\ pc' = "returned"
    /\ UNCHANGED engVars
    /\ UNCHANGED <<decVars, ansiVars, colVars>>

NextEngine ==
    \/ Begin
    \/ HandleCarriageReturn
    \/ HandleNewline
    \/ HandleTab
    \/ HandleGrapheme
    \/ HandleOtherNonPrinting
    \/ HandleNonUTF8Data
    \/ HandleAnsi
    \/ End

SpecEngine == InitEngine /\ [][NextEngine]_vars

---------------------------------------------------------------------------
(* Claims about the decoder and its driver, checked under Spec.            *)

\* Byte offset in the input of the k-th delivered element.
OffsetOf(k) == Len(Bytes(Take(delivered, k - 1)))

\* The elements delivered so far stand for a prefix of the input: nothing
\* is reordered or duplicated on the way (bytes can only be lost at the end).
DeliveredIsPrefix ==
    LET b == Bytes(delivered)
    IN  Len(b) <= Len(input) /\ b = Take(input, Len(b))

\* C1: when for_each_console_element returns Ok, the underlying bytes of
\* the delivered elements, concatenated in delivery order, are exactly the
\* input: no byte is dropped, duplicated or reordered.
C1_AllBytesDelivered ==
    pc = "done" => Bytes(delivered) = input

\* C2: with true_end set and bytes left in the buffer,
\* try_get_next_element never answers NeedMoreData.
C2_FinalChunkAlwaysProduces ==
    (pc = "loop" /\ iter.true_end /\ slop_bytes(iter) > 0)
        => try_get_next_element(iter).tag # "NeedMoreData"

\* C3: chunking invariance: the elements delivered when the input arrives
\* split into reads are those of decoding the whole input as one final
\* chunk.
C3_ChunkingInvariance ==
    pc = "done" => delivered = DecodeFinal(input).elems

\* C4: wherever the input holds a base letter immediately followed by a
\* combining accent, the element delivered for the base letter is one
\* Grapheme holding both code points; and in a non-final chunk the last
\* grapheme of the valid text is held back with NeedMoreData.
C4_BaseAndAccentOneGrapheme ==
    /\ \A k \in 1..Len(delivered) :
        LET off == OffsetOf(k)
        IN  (/\ off + 3 <= Len(input)
             /\ SubSeq(input, off + 1, off + 3) = BaseLetter \o Accent)
            => /\ delivered[k].kind = "Grapheme"
               /\ starts_with(delivered[k].data, BaseLetter \o Accent)
    /\ (/\ pc = "loop"
        /\ ~iter.true_end
        /\ iter.known_segment.kind = "ValidUtf8"
        /\ iter.known_segment.data # <<>>
        /\ ~is_ascii_control(iter.known_segment.data[1])
        /\ FirstGraphemeLen(iter.known_segment.data) = Len(iter.known_segment.data))
       => try_get_next_element(iter).tag = "NeedMoreData"

---------------------------------------------------------------------------
(* Claims about the classifier, checked under SpecAnsi.                    *)

RECURSIVE NumeralValue(_)
\* The number a string of decimal digits denotes.
NumeralValue(d) ==
    IF d = <<>> THEN 0
    ELSE 10 * NumeralValue(Take(d, Len(d) - 1)) + (d[Len(d)] - 48)

\* The digit strings of the argument texts, and those denoting n >= 1.
Numerals ==
    {d \in SeqsUpTo({c \in ArgChars : c >= 48 /\ c <= 57}, MaxArgs) : d # <<>>}
PositiveNumerals == {d \in Numerals : NumeralValue(d) >= 1}

\* An integer as written on the wire: digits, with or without a sign.
IsInteger(s) ==
    \/ s \in Numerals
    \/ Len(s) > 1 /\ s[1] \in {43, 45} /\ Tail(s) \in Numerals
IntegerValue(s) ==
    IF s[1] = 45 THEN -NumeralValue(Tail(s))
    ELSE IF s[1] = 43 THEN NumeralValue(Tail(s))
    ELSE NumeralValue(s)

\* The argument text of a sequence and its first argument: the text up to
\* the first ';'.
ArgsOf(a) == SubSeq(a, 3, Len(a) - 1)
FirstArgument(args) ==
    IF \E k \in 1..Len(args) : args[k] = 59
    THEN Take(args, (CHOOSE k \in 1..Len(args) :
                        args[k] = 59 /\ \A j \in 1..(k - 1) : args[j] # 59) - 1)
    ELSE args

\* C5: "ESC[<row>;<col>H" with row >= 1 and col >= 1 classifies as
\* SetCursor(Some(col-1), Some(row-1)).
C5_SetCursorRowThenColumn ==
    pc = "classified" =>
        \A r \in PositiveNumerals, c \in PositiveNumerals :
            ansi = <<ESC, LBRACKET>> \o r \o <<59>> \o c \o Str(<<"H">>)
                => code = SetCursor(Some(NumeralValue(c) - 1), Some(NumeralValue(r) - 1))

\* C6: "ESC[<n><T>" with an explicit n >= 1 classifies as
\* MoveCursor(None, Some(-n)) for A, MoveCursor(None, Some(n)) for B,
\* MoveCursor(Some(n), None) for C and MoveCursor(Some(-n), None) for D.
C6_RelativeMoveCodes ==
    pc = "classified" =>
        \A d \in PositiveNumerals :
            LET n == NumeralValue(d)
            IN  /\ ansi = <<ESC, LBRACKET>> \o d \o Str(<<"A">>)
                    => code = MoveCursor(None, Some(-n))
                /\ ansi = <<ESC, LBRACKET>> \o d \o Str(<<"B">>)
                    => code = MoveCursor(None, Some(n))
                /\ ansi = <<ESC, LBRACKET>> \o d \o Str(<<"C">>)
                    => code = MoveCursor(Some(n), None)
                /\ ansi = <<ESC, LBRACKET>> \o d \o Str(<<"D">>)
                    => code = MoveCursor(Some(-n), None)

\* "ESC[15D" has been classified as a move of 15 columns to the left.
C6_Witness ==
    /\ pc = "classified"
    /\ ansi = Csi(<<"1", "5", "D">>)
    /\ code = MoveCursor(Some(-15), None)

\* C7: a missing or unparsable argument takes the default of its code: a
\* move code without a parsable distance moves by 1, and ESC[H, ESC[G and
\* ESC[5H classify as SetCursor(Some(0), Some(0)), SetCursor(Some(0), None)
\* and SetCursor(Some(0), Some(4)).
C7_MissingArgumentDefaults ==
    pc = "classified" =>
        /\ \A args \in SeqsUpTo(ArgChars, MaxArgs) :
            ~IsInteger(FirstArgument(args)) =>
                /\ ansi = <<ESC, LBRACKET>> \o args \o Str(<<"A">>)
                    => code = MoveCursor(None, Some(-1))
                /\ ansi = <<ESC, LBRACKET>> \o args \o Str(<<"B">>)
                    => code = MoveCursor(None, Some(1))
                /\ ansi = <<ESC, LBRACKET>> \o args \o Str(<<"C">>)
                    => code = MoveCursor(Some(1), None)
                /\ ansi = <<ESC, LBRACKET>> \o args \o Str(<<"D">>)
                    => code = MoveCursor(Some(-1), None)
        /\ ansi = Csi(<<"H">>) => code = SetCursor(Some(0), Some(0))
        /\ ansi = Csi(<<"G">>) => code = SetCursor(Some(0), None)
        /\ ansi = Csi(<<"5", "H">>) => code = SetCursor(Some(0), Some(4))

\* C8: a sequence longer than 2 that ends in 'm' is SetColor when the text
\* after ESC starts with "[3"; else ResetStyle when it has a single
\* argument that is 0 or absent; else Other.
C8_StyleBySingleArgument ==
    (pc = "classified" /\ Len(ansi) > 2 /\ ansi[Len(ansi)] = Code["m"]) =>
        LET args == ArgsOf(ansi)
            single == \A k \in 1..Len(args) : args[k] # 59
        IN  code = IF starts_with(Drop(ansi, 1), Str(<<"[", "3">>)) THEN SetColor
                   ELSE IF /\ single
                           /\ \/ args = <<>>
                              \/ IsInteger(args) /\ IntegerValue(args) = 0
                        THEN ResetStyle
                   ELSE Other

\* C8, amended: ... else ResetStyle when the FIRST argument (the text
\* between the second character and the first ';' or the terminator) is
\* absent, is no integer, or is 0, whatever follows it; else Other.
C8_StyleByFirstArgument ==
    (pc = "classified" /\ Len(ansi) > 2 /\ ansi[Len(ansi)] = Code["m"]) =>
        LET first == FirstArgument(ArgsOf(ansi))
        IN  code = IF starts_with(Drop(ansi, 1), Str(<<"[", "3">>)) THEN SetColor
                   ELSE IF ~IsInteger(first) \/ IntegerValue(first) = 0
                        THEN ResetStyle
                   ELSE Other

\* "ESC[0;1m" (reset, then bold) has been classified as ResetStyle.
C8_Witness ==
    /\ pc = "classified"
    /\ ansi = Csi(<<"0", ";", "1", "m">>)
    /\ code = ResetStyle

---------------------------------------------------------------------------
(* Claims about the recoloring engine, checked under SpecEngine.           *)

\* The handler has returned from the element lastElem.
Handled == pc \in {"run", "returned"} /\ lastElem # NoElem

\* The code of the escape sequence the handler ran on last.
LastCode == parse_ansi_type(lastElem.data)

\* C9: on MoveCursor(dx, dy) at position (c, r) the new column is
\* max(0, c + dx) and the new row is max(0, r + dy); a None field leaves
\* its coordinate unchanged.
C9_RelativeMoveSaturatesAtZero ==
    (Handled /\ lastElem.kind = "Ansi" /\ LastCode.type = "MoveCursor") =>
        /\ position[1] = IF LastCode.a.some
                         THEN Max(0, prev.position[1] + LastCode.a.val)
                         ELSE prev.position[1]
        /\ position[2] = IF LastCode.b.some
                         THEN Max(0, prev.position[2] + LastCode.b.val)
                         ELSE prev.position[2]

\* C10: on ResetStyle the engine writes the sequence unchanged and right
\* after it the encoding (24-bit or palette, per supports_rgb24) of the
\* applied colour, and nothing else; position and applied colour stay.
C10_ResetStyleReappliesColor ==
    (Handled /\ lastElem.kind = "Ansi" /\ LastCode = ResetStyle) =>
        /\ output = prev.output \o
                <<lastElem.data,
                  IF config.supports_rgb24 THEN write_as_24bit_ansi(prev.color)
                  ELSE write_as_paletted_ansi(prev.color)>>
        /\ position = prev.position
        /\ color = prev.color

\* "ESC[0m" arrived after a grapheme under the striped policy with 24-bit
\* colour: the output ends with the reset and then "ESC[38;2;200;0;0m".
C10_Witness ==
    /\ Handled
    /\ steps = 2
    /\ policy = "Stripes"
    /\ lastElem = Elem("Ansi", Csi(<<"0", "m">>))
    /\ prev.position = <<1, 0>>
    /\ output[Len(output)] =
        Csi(<<"3", "8", ";", "2", ";", "2", "0", "0", ";", "0", ";", "0", "m">>)
    /\ output[Len(output) - 1] = Csi(<<"0", "m">>)

\* C11: on an Ansi element classified SetColor the engine writes nothing:
\* the output, the tracked position and the applied colour are what they
\* were before the element, so the sequence is not in the output.
C11_SetColorDiscarded ==
    (Handled /\ lastElem.kind = "Ansi" /\ LastCode = SetColor) =>
        /\ output = prev.output
        /\ position = prev.position
        /\ color = prev.color

\* "ESC[31m" arrived after a grapheme: the output still ends with the
\* grapheme, and no write of the output is the sequence.
C11_Witness ==
    /\ Handled
    /\ steps = 2
    /\ lastElem = Elem("Ansi", Csi(<<"3", "1", "m">>))
    /\ output[Len(output)] = BaseLetter
    /\ \A k \in 1..Len(output) : output[k] # Csi(<<"3", "1", "m">>)

\* The writes that are colour escapes of the engine, and the indices of the
\* writes of `out` that satisfy a test.
PolicyColors == {get_color(pol, <<x, 0>>) : pol \in Policies, x \in 0..1}
Rgb24Escapes == {write_as_24bit_ansi(c) : c \in PolicyColors}
PaletteEscapes == {write_as_paletted_ansi(c) : c \in PolicyColors}
IsColorEscape(w) ==
    w \in (IF config.supports_rgb24 THEN Rgb24Escapes ELSE PaletteEscapes)
ColorEscapesIn(out) == {k \in 1..Len(out) : IsColorEscape(out[k])}
ResetsIn(out) ==
    {k \in 1..Len(out) : out[k] \in EngineAnsi /\ parse_ansi_type(out[k]) = ResetStyle}
LineBreaksIn(out) == {k \in 1..Len(out) : out[k] = <<LF>>}

\* C12: nothing is written before the colour of (0,0), which is the first
\* write also when no element follows; under a policy with one colour and
\* without a style reset in the input it stays the only colour escape; and
\* the sink is flushed once per Newline, right after the line break, when
\* flush_on_newline is set, and never when it is not.
C12_InitialColorOnceAndFlushPerNewline ==
    /\ pc = "begin" => (output = <<>> /\ steps = 0 /\ flushes = <<>>)
    /\ pc # "begin" =>
        /\ Len(output) >= 1
        /\ output[1] = ColorEscape(get_color(policy, <<0, 0>>))
    /\ (pc # "begin" /\ policy = "Constant" /\ ResetsIn(output) = {})
        => ColorEscapesIn(output) = {1}
    /\ IF config.flush_on_newline
       THEN /\ {flushes[i] : i \in 1..Len(flushes)} = LineBreaksIn(output)
            /\ \A i, j \in 1..Len(flushes) : i < j => flushes[i] < flushes[j]
       ELSE flushes = <<>>

\* "A", then a newline, under the one-colour policy with flushing on: the
\* output is the colour escape, "A" and the line break, and the one flush
\* came after the third write.
C12_Witness ==
    /\ pc = "returned"
    /\ policy = "Constant"
    /\ config.flush_on_newline
    /\ output = <<ColorEscape(<<10, 20, 30>>), BaseLetter, <<LF>>>>
    /\ flushes = <<3>>

---------------------------------------------------------------------------
(* Claims about errors and termination of the driver, checked under Spec.  *)

\* C13: once the handler or a read has returned an error,
\* for_each_console_element has returned it: the element the handler
\* failed on is the last it was called with, and no step (no handler call,
\* no read, no retry) follows.
C13_ErrorsReturnImmediately ==
    failure # "None" =>
        /\ pc = "failed"
        /\ ~ENABLED Next
        /\ failure = "Handler" => delivered # <<>>

\* The handler failed on the second element of an input of three bytes, and
\* the third was neither read nor delivered.
C13_Witness ==
    /\ pc = "failed"
    /\ failure = "Handler"
    /\ Len(input) = 3
    /\ Len(delivered) = 2
    /\ pos = 2

\* for_each_console_element has returned or unwound.
Terminated == pc \in {"done", "failed", "panicked"}

\* A read was performed in this step: the source handed out bytes, or it
\* answered 0 and already_hit_end was set.
ReadPerformed == pos' > pos \/ (already_hit_end' /\ ~already_hit_end)

\* C14: the driver terminates on every input; each round of the loop
\* delivers an element of at least one byte, performs a read or ends the
\* run; and a NeedMoreData after the source is exhausted returns Ok(())
\* without another read or delivery.
C14_DriverTerminates ==
    /\ <>Terminated
    /\ [][pc = "loop" =>
            \/ /\ Len(delivered') = Len(delivered) + 1
               /\ Len(delivered'[Len(delivered')].data) >= 1
            \/ ReadPerformed
            \/ Terminated']_vars
    /\ [][(/\ pc = "loop"
           /\ already_hit_end
           /\ try_get_next_element(iter).tag = "NeedMoreData")
          => (pc' = "done" /\ UNCHANGED <<pos, delivered, buffer>>)]_vars

\* The driver returned Ok(()) after more than one refill of the buffer.
C14_Witness ==
    /\ pc = "done"
    /\ already_hit_end
    /\ pos = Len(input)
    /\ Len(input) > BufSize
    /\ Bytes(delivered) = input

---------------------------------------------------------------------------
(* Claims about colours, checked under SpecColor.                          *)

\* Two colours differ by at most 1 in every channel.
WithinOne(c, d) == \A ch \in 1..3 : abs_diff(c[ch], d[ch]) <= 1

\* C15: with beta in 0..255, rgb_interpolate(c, c, alpha) is c,
\* rgb_interpolate(a, b, 0.0) is a and rgb_interpolate(a, b, 1.0) is b,
\* each within 1 per channel, and the 16-bit sum of a channel never
\* overflows.
C15_InterpolateEndpoints ==
    pc = "mixed" =>
        /\ Beta(blend.alpha) \in 0..U8Max
        /\ blend.self = blend.other => WithinOne(blend.result, blend.self)
        /\ blend.alpha = 0 => WithinOne(blend.result, blend.self)
        /\ blend.alpha = AlphaDen => WithinOne(blend.result, blend.other)
        /\ \A ch \in 1..3 :
            Intermediate(blend.self[ch], blend.other[ch], Beta(blend.alpha)) <= U16Max

\* White and black were mixed with alpha 1.0: the sum of the first channel
\* is 255 * 255 and the result is black.
C15_Witness ==
    /\ pc = "mixed"
    /\ blend.self = <<255, 255, 255>>
    /\ blend.other = <<0, 0, 0>>
    /\ blend.alpha = AlphaDen
    /\ blend.result = <<0, 0, 0>>

---------------------------------------------------------------------------
(* Claims about IterElements on one chunk, checked under SpecIter.         *)

\* The valid text the next element is taken from: the known segment, or
\* what try_fetch_next_known would load; empty when there is none.
PendingText(it) ==
    LET f == IF it.known_segment.kind = "None"
             THEN try_fetch_next_known(it)
             ELSE [ok |-> TRUE, it |-> it]
    IN  IF f.ok /\ f.it.known_segment.kind = "ValidUtf8"
        THEN f.it.known_segment.data
        ELSE <<>>

RECURSIVE ScanEnd(_, _, _)
\* The escape scan as the specification words it, over characters: the
\* character at byte i of text is the k-th of the scan; the result is the
\* number of bytes up to and including the first character above 0x40
\* that is not '[' or is past the second, or 0 when the text has none.
ScanEnd(text, i, k) ==
    IF i > Len(text) THEN 0
    ELSE LET cp == CodePoint(text, i)
             last == i + CharLen(text, i) - 1
         IN  IF cp > AT /\ (cp # LBRACKET \/ k > 2) THEN last
             ELSE ScanEnd(text, last + 1, k + 1)

\* C16: when the text ahead starts with ESC, the next element is the Ansi
\* element ending, inclusively, at the first character above 0x40 that is
\* not '[' or comes after the second character; with no such character a
\* non-final chunk answers NeedMoreData with nothing consumed and a final
\* chunk gives an Ansi element of all the remaining text.
C16_EscapeScan ==
    (pc = "iter" /\ starts_with(PendingText(iter), <<ESC>>)) =>
        LET text == PendingText(iter)
            end == ScanEnd(text, 1, 1)
            r == try_get_next_element(iter)
        IN  IF end > 0
            THEN r.tag = "Ok" /\ r.elem = Elem("Ansi", Take(text, end))
            ELSE IF iter.true_end
            THEN r.tag = "Ok" /\ r.elem = Elem("Ansi", text)
            ELSE r.tag = "NeedMoreData" /\ slop_bytes(r.it) = slop_bytes(iter)

---------------------------------------------------------------------------
(* Claims about the slop and about encoding errors.                        *)

\* The bytes an iterator has not consumed, in order.
Unconsumed(it) == it.known_segment.data \o it.remaining

\* C17 (checked under Spec): the iterator's unconsumed bytes are the last
\* slop_bytes() bytes of buffer[..last_end], every element delivered takes
\* its own bytes off them, and an answer of NeedMoreData takes none; the
\* refill then has those bytes, in order, at buffer[0..slop] and the bytes
\* of the next read right after them, and the new iterator covers both.
C17_SlopRetained ==
    /\ [](pc = "loop" =>
            LET r == try_get_next_element(iter)
            IN  /\ slop_bytes(iter) <= last_end
                /\ Unconsumed(iter) =
                        SubSeq(buffer, last_end - slop_bytes(iter) + 1, last_end)
                /\ r.tag = "NeedMoreData" =>
                    /\ slop_bytes(r.it) = slop_bytes(iter)
                    /\ Unconsumed(r.it) = Unconsumed(iter))
    /\ [][(pc = "loop" /\ Len(delivered') = Len(delivered) + 1) =>
            /\ slop_bytes(iter') =
                    slop_bytes(iter) - Len(delivered'[Len(delivered')].data)
            /\ UNCHANGED <<buffer, last_end>>]_vars
    /\ [][(pc = "loop" /\ try_get_next_element(iter).tag = "NeedMoreData"
                       /\ ~already_hit_end) =>
            LET slop == slop_bytes(iter)
                amount == pos' - pos
            IN  /\ SubSeq(buffer', 1, slop) = Unconsumed(iter)
                /\ pc' = "loop" =>
                    /\ SubSeq(buffer', slop + 1, slop + amount) =
                            SubSeq(input, pos + 1, pos + amount)
                    /\ last_end' = slop + amount
                    /\ iter' = NewIter(SubSeq(buffer', 1, slop + amount), amount = 0)]_vars

\* "AA" and U+0301 arrived in two reads: the first "A" was delivered, the
\* second was held back with what followed it, and after the refill the
\* buffer holds the held bytes and then the newly read ones.
C17_Witness ==
    /\ pc = "loop"
    /\ input = <<65, 65, 204, 129>>
    /\ pos = 4
    /\ last_end = 3
    /\ delivered = <<Elem("Grapheme", BaseLetter)>>
    /\ SubSeq(buffer, 1, 3) = BaseLetter \o Accent
    /\ iter = NewIter(BaseLetter \o Accent, FALSE)

\* Byte i of the input starts a valid multi-byte character: U+0301, the
\* one multi-byte character the bytes of Inputs can form.
MultiByteAt(i) ==
    /\ i >= 1
    /\ i + Len(Accent) - 1 <= Len(input)
    /\ SubSeq(input, i, i + Len(Accent) - 1) = Accent

\* The k-th delivered element holds the whole character starting at byte i.
Holds(k, i) ==
    /\ OffsetOf(k) < i
    /\ i + Len(Accent) - 1 <= OffsetOf(k) + Len(delivered[k].data)

\* C18 (checked under Spec): no byte of a valid multi-byte character is
\* delivered as NonUTF8Data; an incomplete sequence at the tail of a
\* non-final chunk answers NeedMoreData; and once the driver is through,
\* every such character whose bytes have all been read was delivered
\* inside one Grapheme element.
C18_SplitCharacterStaysWhole ==
    /\ \A k \in 1..Len(delivered) :
        delivered[k].kind = "NonUTF8Data" =>
            \A i \in 1..Len(input) :
                MultiByteAt(i) =>
                    (OffsetOf(k) + 1 < i \/ OffsetOf(k) + 1 > i + Len(Accent) - 1)
    /\ (/\ pc = "loop"
        /\ ~iter.true_end
        /\ iter.known_segment.kind = "None"
        /\ iter.remaining # <<>>
        /\ from_utf8(iter.remaining).valid_up_to = 0
        /\ ~from_utf8(iter.remaining).ok
        /\ from_utf8(iter.remaining).error_len = NoneLen)
       => try_get_next_element(iter).tag = "NeedMoreData"
    /\ pc \in {"done", "panicked"} =>
        \A i \in 1..Len(input) :
            (MultiByteAt(i) /\ pos >= i + Len(Accent) - 1) =>
                \E k \in 1..Len(delivered) :
                    delivered[k].kind = "Grapheme" /\ Holds(k, i)

RECURSIVE Advance(_, _)
\* The iterator after n more calls of try_get_next_element.
Advance(it, n) ==
    IF n = 0 THEN it ELSE Advance(try_get_next_element(it).it, n - 1)

\* C19 (checked under SpecIter): when the bytes ahead start with a definite
\* encoding error of len bytes, the next len calls give NonUTF8Data
\* elements of one byte each, the bytes of the invalid sequence in order,
\* and leave the iterator at the byte after them with no known segment;
\* when valid text comes before the invalid bytes, that text is loaded as
\* the known segment and the next call is answered from it.
C19_DefiniteErrorByteByByte ==
    /\ \A k \in 1..Len(delivered) :
        delivered[k].kind = "NonUTF8Data" => Len(delivered[k].data) = 1
    /\ (pc = "iter" /\ iter.known_segment.kind = "None") =>
        LET e == from_utf8(iter.remaining)
        IN  /\ (~e.ok /\ e.valid_up_to = 0 /\ e.error_len # NoneLen) =>
                /\ \A j \in 1..e.error_len :
                    LET r == try_get_next_element(Advance(iter, j - 1))
                    IN  /\ r.tag = "Ok"
                        /\ r.elem = Elem("NonUTF8Data", <<iter.remaining[j]>>)
                /\ Advance(iter, e.error_len) =
                        NewIter(Drop(iter.remaining, e.error_len), iter.true_end)
            /\ (~e.ok /\ e.valid_up_to > 0) =>
                LET r == try_get_next_element(iter)
                IN  /\ r.elem.kind # "NonUTF8Data"
                    /\ Unconsumed(r.it) =
                            Drop(iter.remaining, Len(r.elem.data))
                    /\ r.tag = "Ok" =>
                        r.elem.data = Take(iter.remaining, Len(r.elem.data))

\* A final chunk of 0xE1 0x81 'A': the two bytes of the broken three-byte
\* character came as two NonUTF8Data elements, then "A" as a Grapheme.
C19_Witness ==
    /\ input = <<225, 129, 65>>
    /\ iter.true_end
    /\ delivered = <<Elem("NonUTF8Data", <<225>>), Elem("NonUTF8Data", <<129>>),
                     Elem("Grapheme", BaseLetter)>>

---------------------------------------------------------------------------
(* More claims about the recoloring engine, checked under SpecEngine.      *)

\* The index of the last colour escape written.
LastColorEscape(out) ==
    LET at == ColorEscapesIn(out)
    IN  CHOOSE k \in at : \A j \in at : j <= k

\* C20: once the initial colour is written, the last colour escape in the
\* output is the encoding of the applied colour; and a Grapheme adds to the
\* output the escape of the policy's colour for the position it was
\* handled at exactly when that colour differs from the one applied
\* before, and then the grapheme's own bytes, and leaves that colour
\* applied.
C20_AppliedColorIsLastWritten ==
    pc # "begin" =>
        /\ ColorEscapesIn(output) # {}
        /\ output[LastColorEscape(output)] = ColorEscape(color)
        /\ lastElem.kind = "Grapheme" =>
            LET new_color == get_color(policy, prev.position)
            IN  /\ output = prev.output
                        \o (IF new_color # prev.color
                            THEN <<ColorEscape(new_color)>> ELSE <<>>)
                        \o <<lastElem.data>>
                /\ color = new_color

\* Two graphemes under the striped policy: the first has the colour
\* already applied and is written bare, the second is in the next stripe
\* and has its colour written before it.
C20_Witness ==
    /\ pc = "run"
    /\ policy = "Stripes"
    /\ config.supports_rgb24
    /\ color = <<0, 0, 200>>
    /\ output = <<write_as_24bit_ansi(<<200, 0, 0>>), BaseLetter,
                  write_as_24bit_ansi(<<0, 0, 200>>), BaseLetter \o Accent>>

\* C21: after a Grapheme handled at (c, r) with a wrap width w and c < w
\* the position is (c+1, r) if c+1 < w and (0, r+1) if c+1 = w; with no wrap
\* width it is (c+1, r).
C21_GraphemeAdvancesColumn ==
    (Handled /\ lastElem.kind = "Grapheme") =>
        LET c == prev.position[1]
            r == prev.position[2]
        IN  IF config.wraps_after.some
            THEN c < config.wraps_after.val =>
                    position = IF c + 1 < config.wraps_after.val
                               THEN <<c + 1, r>>
                               ELSE <<0, r + 1>>
            ELSE position = <<c + 1, r>>

\* C22: a Tab at column c moves the column to (c div tab_size + 1) *
\* tab_size, or to w - 1 when that is at least the wrap width w; the row
\* and the applied colour stay, and the tab character is the only write.
C22_TabSnapsToNextStop ==
    (Handled /\ lastElem.kind = "Tab") =>
        LET c == prev.position[1]
            stop == (c \div config.tab_size + 1) * config.tab_size
        IN  /\ position[1] =
                    IF config.wraps_after.some /\ stop >= config.wraps_after.val
                    THEN config.wraps_after.val - 1
                    ELSE stop
            /\ position[2] = prev.position[2]
            /\ output = Append(prev.output, <<TAB>>)
            /\ color = prev.color

\* C23: on SetCursor(col, row) the column becomes col when it is Some and
\* the row becomes row when it is Some, a coordinate whose field is None
\* stays, the applied colour stays and the sequence is the only write;
\* "ESC[<n>G" with n >= 1 changes only the column, to n - 1.
C23_SetCursorOverwrites ==
    (Handled /\ lastElem.kind = "Ansi" /\ LastCode.type = "SetCursor") =>
        /\ position[1] = IF LastCode.a.some THEN LastCode.a.val
                         ELSE prev.position[1]
        /\ position[2] = IF LastCode.b.some THEN LastCode.b.val
                         ELSE prev.position[2]
        /\ color = prev.color
        /\ output = Append(prev.output, lastElem.data)
        /\ \A n \in PositiveNumerals :
                lastElem.data = <<ESC, LBRACKET>> \o n \o Str(<<"G">>)
                    => position = <<NumeralValue(n) - 1, prev.position[2]>>

\* "ESC[5G" arrived on the second row, after a newline: the column is 4,
\* the row is still 1 and the sequence closes the output.
C23_Witness ==
    /\ Handled
    /\ lastElem = Elem("Ansi", Csi(<<"5", "G">>))
    /\ prev.position = <<0, 1>>
    /\ position = <<4, 1>>
    /\ output[Len(output)] = Csi(<<"5", "G">>)

\* C24: after "ESC[<n>E" with n >= 1 handled at (c, r) the position is
\* (0, r + n), and after "ESC[<n>F" it is (0, max(0, r - n)), whatever c
\* was.
C24_LineMovesResetColumn ==
    (Handled /\ lastElem.kind = "Ansi") =>
        \A n \in PositiveNumerals :
            /\ lastElem.data = <<ESC, LBRACKET>> \o n \o Str(<<"E">>)
                => position = <<0, prev.position[2] + NumeralValue(n)>>
            /\ lastElem.data = <<ESC, LBRACKET>> \o n \o Str(<<"F">>)
                => position = <<0, Max(0, prev.position[2] - NumeralValue(n))>>

\* The terminators parse_ansi_type has an arm for.
KnownTerminators == {Code[c] : c \in {"m", "A", "B", "C", "D", "E", "F", "G", "H"}}

\* C25: an OtherNonPrinting element, a NonUTF8Data element and an Ansi
\* element classified Other are written as they came and nothing else is
\* written; the position and the applied colour stay. A sequence of at most
\* two bytes and one with a terminator the classifier has no arm for are
\* classified Other.
C25_PassThroughElements ==
    /\ (Handled /\ lastElem.kind = "Ansi"
            /\ (Len(lastElem.data) <= 2
                    \/ lastElem.data[Len(lastElem.data)] \notin KnownTerminators))
        => LastCode = Other
    /\ (Handled
            /\ \/ lastElem.kind \in {"OtherNonPrinting", "NonUTF8Data"}
               \/ lastElem.kind = "Ansi" /\ LastCode = Other)
        => /\ output = Append(prev.output, lastElem.data)
           /\ position = prev.position
           /\ color = prev.color

\* The erase code "ESC[2J" arrived after a grapheme under the striped
\* policy: it closes the output right behind the grapheme, and the cursor
\* is still in column 1.
C25_Witness ==
    /\ Handled
    /\ policy = "Stripes"
    /\ lastElem = Elem("Ansi", Csi(<<"2", "J">>))
    /\ position = <<1, 0>>
    /\ output[Len(output)] = Csi(<<"2", "J">>)
    /\ output[Len(output) - 1] = BaseLetter

---------------------------------------------------------------------------
(* More claims about the driver and the decoder, checked under Spec.       *)

\* C26: the driver takes the stream as exhausted only when the source has
\* no byte left, and every read after the first is given room: the slop
\* kept in front of it is smaller than the buffer.
C26_EndOnlyWhenSourceIsEmpty ==
    /\ already_hit_end => pos = Len(input)
    /\ (pc = "loop" /\ ~already_hit_end
            /\ try_get_next_element(iter).tag = "NeedMoreData")
        => slop_bytes(try_get_next_element(iter).it) < BufSize

\* C27 (checked under SpecIter): decoding a chunk of valid UTF-8 that holds
\* an ESC never aborts, and every Ansi element delivered is made of whole
\* characters, multi-byte ones included.
C27_EscapeScanNeverAborts ==
    /\ (from_utf8(input).ok /\ \E k \in 1..Len(input) : input[k] = ESC)
        => pc # "panicked"
    /\ \A k \in 1..Len(delivered) :
            delivered[k].kind = "Ansi" => from_utf8(delivered[k].data).ok

---------------------------------------------------------------------------
(* Claims about the tracked position as a whole, checked under SpecEngine. *)

\* C28: no arithmetic on the tracked position leaves the machine word: the
\* handler never panics on an overflow, a G or H argument less one is not
\* a huge column or row, and the column increment of a Grapheme and the
\* tab stop of a Tab are computed within the word.
C28_PositionArithmeticInRange ==
    /\ pc # "panicked"
    /\ (Handled /\ lastElem.kind = "Ansi" /\ LastCode.type = "SetCursor") =>
        /\ LastCode.a.some => LastCode.a.val < IsizeMax
        /\ LastCode.b.some => LastCode.b.val < IsizeMax
    /\ (Handled /\ lastElem.kind = "Grapheme") =>
            ~Overflows(prev.position[1] + 1)
    /\ (Handled /\ lastElem.kind = "Tab") =>
            ~Overflows((prev.position[1] \div config.tab_size + 1) * config.tab_size)

\* C29: with a wrap width configured the tracked column is below it in
\* every state of the run.
C29_ColumnBelowWrapWidth ==
    config.wraps_after.some => position[1] < config.wraps_after.val

RECURSIVE SgrParams(_)
\* The parameters of an SGR sequence: the pieces of its argument text
\* between the ';'.
SgrParams(args) ==
    IF \A k \in 1..Len(args) : args[k] # 59 THEN {args}
    ELSE {FirstArgument(args)}
            \cup SgrParams(Drop(args, Len(FirstArgument(args)) + 1))

\* The SGR parameters that select a foreground colour (30-37, 38, 39 and
\* the bright 90-97), and the reset parameter 0, which may be left empty.
ForegroundParams == (30..39) \cup (90..97)

\* A write that is an SGR sequence ("ESC[" parameters "m") setting the
\* foreground colour or resetting the style.
SetsForegroundOrResets(w) ==
    /\ Len(w) > 2
    /\ w[1] = ESC /\ w[2] = LBRACKET /\ w[Len(w)] = Code["m"]
    /\ \E p \in SgrParams(ArgsOf(w)) :
            \/ p = <<>>
            \/ /\ \A k \in 1..Len(p) : IsDigit(p[k])
               /\ NumeralValue(p) \in ForegroundParams \cup {0}

\* C30: when a Grapheme is written, the last write before it that sets the
\* foreground colour or resets the style is the engine's encoding of the
\* policy's colour for the position the grapheme was handled at.
C30_OverrideInEffectAtEveryGrapheme ==
    (Handled /\ lastElem.kind = "Grapheme") =>
        LET before == {j \in 1..(Len(output) - 1) : SetsForegroundOrResets(output[j])}
        IN  /\ before # {}
            /\ \A j \in before :
                    (\A i \in before : i <= j)
                        => output[j] = ColorEscape(get_color(policy, prev.position))

=============================================================================
